---- MODULE Spec2Model ----
(***************************************************************************)
(* cli-kit: the CLI entry (constructor, exec), the Context declaration     *)
(* operations (option, registerCommand) and the Extension loader and its   *)
(* exec, as state machines.                                                *)
(*                                                                         *)
(*   Spec     CLI.exec on a constructed CLI: preflight, parse, command     *)
(*            selection, banner wiring, the action, help-on-error, finally *)
(*   SpecCtx  Context.option / Context.command / Context.registerCommand   *)
(*   SpecExt  new CLI({extensions}), Context.extension, Extension.exec     *)
(*                                                                         *)
(* JavaScript values are strings: "undefined", "null", "true", "false".    *)
(***************************************************************************)
EXTENDS Integers, Sequences, FiniteSets, TLC

VARIABLES
    \* ---- CLI.exec
    process,    \* the runtime: [version]
    params,     \* the params object handed to new CLI(params)
    cli,        \* the CLI instance's own properties
    stdout,     \* cli.stdout, an OutputStream
    stderr,     \* cli.stderr, an OutputStream
    closures,   \* the showBanner closures created so far: each one's captured `banner`
    pc,         \* "idle" | "action" (exec awaits an action) | "crashed"
    cur,        \* the locals of the exec invocation in progress
    execs,      \* number of exec invocations started
    first,      \* the first invocation, when it returned normally
    last,       \* how the latest invocation ended (none while one is in progress)
    \* ---- Context declaration operations
    ctx,        \* per context instance: parent, commands, options, lookup
    op,         \* the latest declaration call: its target, argument and error
    nops,       \* number of declaration calls made
    \* ---- extensions
    root,       \* a root (CLI or Context) constructed with params.extensions
    run,        \* the latest invocation of an extension's action
    runs,       \* number of action invocations made
    \* ---- Context.get / Context.prop
    chain,      \* the value of one property on each context of a parent chain
    call,       \* the latest get/prop call: receiver, default and result
    \* ---- mixing an existing context into a new one
    src,        \* the CLI or Command handed to new Context(src), and its ancestors
    made,       \* the Context constructed from it
    \* ---- generateHelp
    scopes,     \* the option entries of the receiver and of each of its ancestors
    help        \* the options part of the latest generateHelp result

execVars == <<process, params, cli, stdout, stderr, closures, pc, cur, execs, first, last>>
ctxVars == <<ctx, op, nops>>
extVars == <<root, run, runs>>
getVars == <<chain, call>>
mixVars == <<src, made>>
helpVars == <<scopes, help>>
vars == <<execVars, ctxVars, extVars, getVars, mixVars, helpVars>>

\* what an exec step, and what a declaration call, leaves alone
outsideExec == <<ctxVars, extVars, getVars, mixVars, helpVars>>
outsideCtx == <<execVars, extVars, getVars, mixVars, helpVars>>
outsideExt == <<execVars, ctxVars, getVars, mixVars, helpVars>>
outsideGet == <<execVars, ctxVars, extVars, mixVars, helpVars>>
outsideMix == <<execVars, ctxVars, extVars, getVars, helpVars>>
outsideHelp == <<execVars, ctxVars, extVars, getVars, mixVars>>

\* ------------------------------------------------------------------ bounds

MaxExecs == 2
MaxOps == 3
MaxCommands == 2
MaxRuns == 2
MaxDepth == 3
MaxProps == 2
MaxAncestors == 2
MaxScopes == 2
MaxEntries == 2

\* --------------------------------------------------------------- JS values

Undefined == "undefined"
Null == "null"

Truthy(v) == v \notin {Undefined, Null, "false", ""}

\* ----------------------------------------------- the declared command tree

Root == "program"

\* commands the consumer declares on the root (params.commands, params.extensions)
UserCommands == {"build", "ext", "kext"}

ClassOf(c) ==
    CASE c = Root -> "CLI"
      [] c \in {"ext", "kext"} -> "Extension"
      [] OTHER -> "Command"

\* class Extension extends Command
InstanceOfCommand(c) == ClassOf(c) \in {"Command", "Extension"}
InstanceOfExtension(c) == ClassOf(c) = "Extension"

\* "ext" wraps an executable, "kext" is a cli-kit extension
IsCLIKitExtension(c) == c = "kext"

\* typeof cmd.action === 'function'
HasAction(c) == c \in {"help", "build", "ext"}

\* cmd.banner: no command of the tree overrides the banner
CmdBanner(c) == Undefined

\* -------------------------------------------------------- CLI.constructor

\* the params objects the model constructs a CLI from; nodeVersion 0 is "not given",
\* N is the range ">=N"
ParamsSet ==
    { p \in [ help : BOOLEAN,
              showHelpOnError : {Undefined, "false"},
              defaultCommand : {Undefined, "build", "missing"},
              banner : {Undefined, "B"},
              hideNoBannerOption : BOOLEAN,
              nodeVersion : {0, 10, 14} ] :
        p.hideNoBannerOption => p.banner # Undefined }

\* the own properties of a CLI instance after its constructor ran; the constructor
\* reads params.showHelpOnError nowhere, so the instance has no such property
CLINew(p) ==
    [ help |-> p.help,
      showHelpOnError |-> Undefined,
      defaultCommand |-> IF p.help /\ p.defaultCommand = Undefined
                         THEN "help" ELSE p.defaultCommand,
      commands |-> UserCommands \cup (IF p.help THEN {"help"} ELSE {}),
      options |-> {"out"}
                  \cup (IF p.help THEN {"help"} ELSE {})
                  \cup (IF Truthy(p.banner) /\ ~p.hideNoBannerOption
                        THEN {"no-banner"} ELSE {}),
      banner |-> p.banner,
      nodeVersion |-> p.nodeVersion,
      showBannerForExternalCLIs |-> Undefined,
      warnings |-> <<>> ]

\* the names of the properties the constructors assign on the root
CLIOwnProps ==
    { "args", "camelCase", "commands", "desc", "name", "options",
      "showBannerForExternalCLIs", "title", "treatUnknownOptionsAsArguments",
      "appName", "banner", "colors", "errorIfUnknownCommand", "helpExitCode",
      "nodeVersion", "warnings", "stdout", "stderr", "console",
      "defaultCommand", "help" }

\* ------------------------------------------------------------- preflight

\* engines.node of cli-kit's own package.json, as the range ">=8"
ClikitNodeVersion == 8

\* semver.satisfies(version, ">=range")
Satisfies(version, range) == version >= range

PreflightFails(c, version) ==
    \/ (c.nodeVersion # 0 /\ ~Satisfies(version, c.nodeVersion))
    \/ ~Satisfies(version, ClikitNodeVersion)

\* ---------------------------------------------------------------- Parser

ArgvEmpty == [help |-> Undefined, banner |-> Undefined, out |-> Undefined]

LongOptions == {"--help", "--no-banner", "--out"}

LongName(t) ==
    CASE t = "--help" -> "help"
      [] t = "--no-banner" -> "no-banner"
      [] t = "--out" -> "out"
      [] OTHER -> t

ParseInit ==
    [ ctx |-> Root, contexts |-> <<Root>>, argv |-> ArgvEmpty, underscore |-> <<>>,
      unknown |-> {}, pending |-> FALSE, err |-> "none" ]

\* one token: a value for a pending value-bearing option, a long option looked up
\* through the scope chain (every option of the tree is declared on the root), a
\* command of the current context, or a positional
ParseToken(c, st, tok) ==
    IF st.pending THEN
        [st EXCEPT !.argv.out = tok, !.pending = FALSE]
    ELSE IF tok \in LongOptions THEN
        IF LongName(tok) \in c.options THEN
            CASE tok = "--help" -> [st EXCEPT !.argv.help = "true"]
              [] tok = "--no-banner" -> [st EXCEPT !.argv.banner = "false"]
              [] OTHER -> [st EXCEPT !.pending = TRUE]
        ELSE
            \* unknown: recorded, and set in argv as a boolean flag under its name
            [st EXCEPT !.unknown = @ \cup {LongName(tok)},
                       !.argv.help = IF tok = "--help" THEN "true" ELSE @]
    ELSE IF st.ctx = Root /\ tok \in c.commands THEN
        [st EXCEPT !.ctx = tok, !.contexts = <<tok>> \o @]
    ELSE
        [st EXCEPT !.underscore = Append(@, tok)]

RECURSIVE ParseLoop(_, _, _, _)
ParseLoop(c, toks, i, st) ==
    IF i > Len(toks) THEN st
    ELSE ParseLoop(c, toks, i + 1, ParseToken(c, st, toks[i]))

\* after the loop: a value-bearing option without its value fails, and options
\* still absent from argv get their defaults (a negated option defaults to true)
ParseFinish(c, st) ==
    IF st.pending THEN [st EXCEPT !.err = "ERR_MISSING_REQUIRED_OPTION"]
    ELSE IF "no-banner" \in c.options /\ st.argv.banner = Undefined
         THEN [st EXCEPT !.argv.banner = "true"]
         ELSE st

Parse(c, toks) == ParseFinish(c, ParseLoop(c, toks, 1, ParseInit))

\* the argument vectors exec is called with
ArgVectors ==
    { <<>>, <<"build", "x">>, <<"--help">>, <<"build", "--help">>, <<"ext">>,
      <<"ext", "--help">>, <<"kext">>, <<"kext", "--help">>, <<"--out">>,
      <<"--no-banner", "build">> }

\* process.argv.slice(2)
ProcessArgv == <<>>

\* what exec is handed: an array, nothing, or a truthy value that is no array
ExecInputs ==
    { [kind |-> "array", v |-> a] : a \in ArgVectors }
    \cup { [kind |-> "undefined", v |-> <<>>], [kind |-> "string", v |-> <<>>] }

\* ---------------------------------------------------------- OutputStream

StreamNew == [started |-> FALSE, ended |-> FALSE, listeners |-> <<>>, banners |-> 0]

\* the 'start' event: every listener is called in order; showBanner writes the
\* banner when its captured `banner` and argv.banner are truthy, then clears `banner`
RECURSIVE EmitStart_BannerKept(_, _, _)
EmitStart_BannerKept(ls, cl, n) ==
    IF ls = <<>> THEN [closures |-> cl, banners |-> n]
    ELSE LET k == Head(ls)
             show == Truthy(cl[k].banner) /\ Truthy(cl[k].argvBanner)
         IN  EmitStart_BannerKept(Tail(ls), cl, IF show THEN n + 1 ELSE n)

RECURSIVE EmitStart(_, _, _)
EmitStart(ls, cl, n) ==
    IF ls = <<>> THEN [closures |-> cl, banners |-> n]
    ELSE LET k == Head(ls)
             show == Truthy(cl[k].banner) /\ Truthy(cl[k].argvBanner)
         IN  EmitStart(Tail(ls), [cl EXCEPT ![k].banner = Null],
                       IF show THEN n + 1 ELSE n)

\* a write to a stream that has not ended: the first one emits 'start'
StreamWrite(s, cl) ==
    IF s.started THEN [stream |-> s, closures |-> cl, banners |-> 0]
    ELSE LET r == EmitStart(s.listeners, cl, 0)
         IN  [ stream |-> [s EXCEPT !.started = TRUE, !.banners = @ + r.banners],
               closures |-> r.closures, banners |-> r.banners ]

StreamEnd(s) == [s EXCEPT !.ended = TRUE]

\* -------------------------------------------------------- Extension.exec

\* a `terminal` property: whether it is defined, and for each of its streams whether
\* it is the process's real stream ("process") or another one ("custom")
NoTerminal == [defined |-> FALSE, stdin |-> "none", stdout |-> "none", stderr |-> "none"]

Terminals ==
    [defined : {TRUE}, stdin : {"process"}, stdout : {"process", "custom"},
     stderr : {"process", "custom"}]

StdioSlot(isCLIKit, stream) ==
    IF ~isCLIKit \/ stream = "process" THEN "inherit" ELSE "pipe"

NoStdio == <<"none", "none", "none">>

\* Extension.exec up to the spawn: rejected without an executable; destructuring
\* this.get('terminal') throws inside the promise executor when no context of the
\* chain defines `terminal`, which rejects the promise; else the child is spawned
ExtensionExec(executable, isCLIKit, terminal) ==
    IF executable = Null THEN
        [state |-> "rejected", err |-> "ERR_NO_EXECUTABLE", stdio |-> NoStdio]
    ELSE IF ~terminal.defined THEN
        [state |-> "rejected", err |-> "TypeError", stdio |-> NoStdio]
    ELSE
        [ state |-> "spawned", err |-> "none",
          stdio |-> << StdioSlot(isCLIKit, terminal.stdin),
                       StdioSlot(isCLIKit, terminal.stdout),
                       StdioSlot(isCLIKit, terminal.stderr) >> ]

\* this.get('terminal') of an extension the CLI constructor registered on the root:
\* the extension has no own `terminal`, and the root defines it only if the CLI
\* constructor assigns it
RootTerminal ==
    IF "terminal" \in CLIOwnProps
    THEN [defined |-> TRUE, stdin |-> "process", stdout |-> "process", stderr |-> "process"]
    ELSE NoTerminal

\* -------------------------------------------------------------- CLI.exec

NoInput == [kind |-> "none", v |-> <<>>]
NoHelpArgs == [contexts |-> <<>>, err |-> "none", warnings |-> <<>>]
NoReturn == [kind |-> "none", by |-> "none"]

\* the locals of an exec invocation: its number, its argument, the parser's result
\* (terminal is contexts[0] as parsed), the selected command and the contexts after
\* selection, the command whose action is awaited, and what the action has done
CurIdle ==
    [ n |-> 0, input |-> NoInput, terminal |-> "none", cmd |-> "none",
      contexts |-> <<>>, underscore |-> <<>>, argv |-> ArgvEmpty, unknown |-> {},
      running |-> "none", inCatch |-> FALSE, helpArgs |-> NoHelpArgs,
      banners |-> 0, lost |-> FALSE ]

NoFirst ==
    [ set |-> FALSE, input |-> NoInput, cmd |-> "none", contexts |-> <<>>,
      underscore |-> <<>>, argv |-> ArgvEmpty, unknown |-> {} ]

\* how an invocation ended: kind is "returned", "thrown" or "crashed" (an uncaught
\* stream error); flushed says whether this invocation ended both streams
Outcome(kind, viaHelp, ret, err, c, flushed) ==
    [ kind |-> kind, viaHelp |-> viaHelp, ret |-> ret, err |-> err, n |-> c.n,
      input |-> c.input, terminal |-> c.terminal, cmd |-> c.cmd,
      contexts |-> c.contexts, underscore |-> c.underscore, argv |-> c.argv,
      unknown |-> c.unknown, helpArgs |-> c.helpArgs, banners |-> c.banners,
      lost |-> c.lost, flushed |-> flushed ]

NoOutcome == Outcome("none", FALSE, NoReturn, "none", CurIdle, FALSE)

\* determine the command to run: [cmd, contexts]
SelectCommand_DefaultFirst(c, cmd0, argv, contexts) ==
    IF c.help /\ Truthy(argv.help)
       /\ (~InstanceOfExtension(cmd0) \/ IsCLIKitExtension(cmd0))
    THEN [cmd |-> "help", contexts |-> <<"help">> \o contexts]
    ELSE IF Truthy(c.defaultCommand) /\ c.defaultCommand \in c.commands
    THEN [cmd |-> c.defaultCommand, contexts |-> <<c.defaultCommand>> \o contexts]
    ELSE [cmd |-> cmd0, contexts |-> contexts]

SelectCommand(c, cmd0, argv, contexts) ==
    IF c.help /\ Truthy(argv.help)
       /\ (~InstanceOfExtension(cmd0) \/ IsCLIKitExtension(cmd0))
    THEN [cmd |-> "help", contexts |-> <<"help">> \o contexts]
    ELSE IF ~InstanceOfCommand(cmd0) /\ Truthy(c.defaultCommand)
            /\ c.defaultCommand \in c.commands
    THEN [cmd |-> c.defaultCommand, contexts |-> <<c.defaultCommand>> \o contexts]
    ELSE [cmd |-> cmd0, contexts |-> contexts]

\* wire up the banner: whether a showBanner closure is registered on both streams
BannerWired(c, cmd) ==
    LET banner == IF Truthy(CmdBanner(cmd)) THEN CmdBanner(cmd) ELSE c.banner
    IN  /\ Truthy(banner)
        /\ ~(InstanceOfExtension(cmd) /\ ~IsCLIKitExtension(cmd)
             /\ ~Truthy(c.showBannerForExternalCLIs))

\* the banner the closure captures
BannerText(c, cmd) == IF Truthy(CmdBanner(cmd)) THEN CmdBanner(cmd) ELSE c.banner

\* the catch block's `help`: this.help && this.showHelpOnError !== false
\*                           && this.commands.get('help')
HelpOnError(c) == c.help /\ c.showHelpOnError # "false" /\ "help" \in c.commands

\* the finally block, and control returns to the caller of exec
Finally(so, se, cl, out) ==
    /\ stdout' = StreamEnd(so)
    /\ stderr' = StreamEnd(se)
    /\ closures' = cl
    /\ pc' = "idle"
    /\ cur' = CurIdle
    /\ last' = out
    /\ first' = IF out.n = 1 /\ out.kind = "returned" /\ ~out.viaHelp
                THEN [ set |-> TRUE, input |-> out.input, cmd |-> out.cmd,
                       contexts |-> out.contexts, underscore |-> out.underscore,
                       argv |-> out.argv, unknown |-> out.unknown ]
                ELSE first

\* the catch block for an error raised inside the try block: the help command's
\* action is awaited with {contexts, err, warnings}, or the error is rethrown
Catch(so, se, cl, c, err, ctxs) ==
    IF HelpOnError(cli)
    THEN /\ pc' = "action"
         /\ cur' = [c EXCEPT !.running = "help", !.inCatch = TRUE,
                             !.helpArgs = [ contexts |-> ctxs, err |-> err,
                                            warnings |-> cli.warnings ]]
         /\ stdout' = so
         /\ stderr' = se
         /\ closures' = cl
         /\ last' = NoOutcome
         /\ UNCHANGED first
    ELSE Finally(so, se, cl, Outcome("thrown", FALSE, NoReturn, err, c, TRUE))

\* an error thrown before the try block is entered: neither catch nor finally runs
ThrowBeforeTry(c, err) ==
    /\ last' = Outcome("thrown", FALSE, NoReturn, err, c, FALSE)
    /\ UNCHANGED <<stdout, stderr, closures, pc, cur, first>>

\* exec(unparsedArgs) up to its first await of an action, or to its end
ExecCall(input) ==
    /\ pc = "idle"
    /\ execs < MaxExecs
    /\ execs' = execs + 1
    /\ UNCHANGED <<process, params, cli, outsideExec>>
    /\ LET c0 == [CurIdle EXCEPT !.n = execs + 1, !.input = input] IN
       IF PreflightFails(cli, process.version) THEN
           ThrowBeforeTry(c0, "ERR_INVALID_NODE_JS")
       ELSE IF input.kind = "string" THEN
           ThrowBeforeTry(c0, "ERR_INVALID_ARGUMENT")
       ELSE
           LET toks == IF input.kind = "undefined" THEN ProcessArgv ELSE input.v
               p == Parse(cli, toks)
           IN
           IF p.err # "none" THEN
               Catch(stdout, stderr, closures, c0, p.err, p.contexts)
           ELSE
               LET sel == SelectCommand(cli, p.contexts[1], p.argv, p.contexts)
                   c1 == [c0 EXCEPT !.terminal = p.contexts[1], !.cmd = sel.cmd,
                                    !.contexts = sel.contexts,
                                    !.underscore = p.underscore, !.argv = p.argv,
                                    !.unknown = p.unknown]
                   wired == BannerWired(cli, sel.cmd)
                   cl == IF wired
                         THEN Append(closures, [ banner |-> BannerText(cli, sel.cmd),
                                                 argvBanner |-> p.argv.banner ])
                         ELSE closures
                   so == IF wired
                         THEN [stdout EXCEPT !.listeners = Append(@, Len(cl))]
                         ELSE stdout
                   se == IF wired
                         THEN [stderr EXCEPT !.listeners = Append(@, Len(cl))]
                         ELSE stderr
               IN
               IF HasAction(sel.cmd) THEN
                   /\ pc' = "action"
                   /\ cur' = [c1 EXCEPT !.running = sel.cmd]
                   /\ stdout' = so
                   /\ stderr' = se
                   /\ closures' = cl
                   /\ last' = NoOutcome
                   /\ UNCHANGED first
               ELSE
                   Finally(so, se, cl,
                           Outcome("returned", FALSE,
                                   [kind |-> "results", by |-> "none"], "none", c1, TRUE))

\* how the action of a command can settle: the consumer's build action returns or
\* throws, the help action returns, the extension's action is Extension.exec
ActionSettles(c) ==
    CASE c = "build" -> {"resolve", "reject"}
      [] c = "help" -> {"resolve"}
      [] c = "ext" -> IF ExtensionExec("ext", IsCLIKitExtension("ext"), RootTerminal).state
                            = "rejected"
                      THEN {"reject"} ELSE {"resolve"}
      [] OTHER -> {}

ActionError(c) ==
    IF c = "ext"
    THEN ExtensionExec("ext", IsCLIKitExtension("ext"), RootTerminal).err
    ELSE "ERR_ACTION"

\* the actions that write to the CLI's streams
Writers == {"build", "help"}

\* an error raised while an action is awaited: inside the try block it reaches the
\* catch block, inside the catch block (the help action) it leaves exec
Raise(err) ==
    IF cur.inCatch
    THEN Finally(stdout, stderr, closures,
                 Outcome("thrown", TRUE, NoReturn, err, cur, TRUE))
    ELSE Catch(stdout, stderr, closures, cur, err, cur.contexts)

\* the awaited action writes to stdout or stderr. A write to a stream that has
\* ended is dropped (through the Console), makes write() throw, or ends the
\* process with an uncaught 'error' event, depending on how it is written
ActionWrite(s, afterEnd) ==
    /\ pc = "action"
    /\ cur.running \in Writers
    /\ UNCHANGED <<process, params, cli, execs, outsideExec>>
    /\ LET st == IF s = "stdout" THEN stdout ELSE stderr IN
       IF st.ended THEN
           CASE afterEnd = "dropped" ->
                    /\ cur' = [cur EXCEPT !.lost = TRUE]
                    /\ UNCHANGED <<stdout, stderr, closures, pc, first, last>>
             [] afterEnd = "thrown" ->
                    Raise("ERR_STREAM_WRITE_AFTER_END")
             [] OTHER ->
                    /\ pc' = "crashed"
                    /\ last' = Outcome("crashed", cur.inCatch, NoReturn,
                                       "ERR_STREAM_WRITE_AFTER_END", cur, FALSE)
                    /\ cur' = CurIdle
                    /\ UNCHANGED <<stdout, stderr, closures, first>>
       ELSE
           LET w == StreamWrite(st, closures) IN
           /\ stdout' = IF s = "stdout" THEN w.stream ELSE stdout
           /\ stderr' = IF s = "stderr" THEN w.stream ELSE stderr
           /\ closures' = w.closures
           /\ cur' = [cur EXCEPT !.banners = @ + w.banners]
           /\ UNCHANGED <<pc, first, last>>

\* the awaited action returns: exec returns its value
ActionReturn ==
    /\ pc = "action"
    /\ "resolve" \in ActionSettles(cur.running)
    /\ UNCHANGED <<process, params, cli, execs, outsideExec>>
    /\ Finally(stdout, stderr, closures,
               Outcome("returned", cur.inCatch,
                       [kind |-> "action", by |-> cur.running], "none", cur, TRUE))

\* the awaited action throws
ActionThrow ==
    /\ pc = "action"
    /\ "reject" \in ActionSettles(cur.running)
    /\ UNCHANGED <<process, params, cli, execs, outsideExec>>
    /\ Raise(ActionError(cur.running))


\* ------------------------------------------- Context: declaration operations

\* the context instances: a root Context, three Command instances and an Extension
\* instance, each command with the name and the aliases it was constructed with
Commands == {"k1", "k2", "k3", "x1"}
Extensions == {"x1"}
Contexts == {"root"} \cup Commands

CommandNames == {"a", "b", "c"}

CmdName(k) ==
    CASE k = "k1" -> "a"
      [] k = "k2" -> "b"
      [] k = "k3" -> "a"
      [] OTHER -> "c"

CmdAliases(k) ==
    CASE k = "k1" -> {}
      [] k = "k2" -> {"a"}
      [] k = "k3" -> {"c"}
      [] OTHER -> {"b"}

\* the Option instances: canonical long and short name (or null), and the visible
\* long aliases
Options == {"o1", "o2", "o3", "o4"}
LongNames == {"foo", "bar", "baz"}
ShortNames == {"f", "g"}

OptLong(o) ==
    CASE o = "o1" -> "foo"
      [] o = "o2" -> "foo"
      [] o = "o3" -> "bar"
      [] OTHER -> "baz"

OptShort(o) ==
    CASE o = "o1" -> "f"
      [] o = "o2" -> Null
      [] o = "o3" -> "f"
      [] OTHER -> "g"

OptAliasesLong(o) == IF o = "o4" THEN {"foo"} ELSE {}

NoLookup ==
    [ long |-> [n \in LongNames |-> "none"], short |-> [n \in ShortNames |-> "none"],
      commands |-> [n \in CommandNames |-> "none"] ]

\* a context after its constructor ran with no commands and no options
ContextNew == [parent |-> "none", commands |-> <<>>, options |-> <<>>, lookup |-> NoLookup]

\* CommandList.has(name)
CommandListHas(cs, n) == \E i \in DOMAIN cs : CmdName(cs[i]) = n

\* CommandList.add(cmd)
CommandListAdd(cs, k) == Append(cs, k)

\* OptionList.add(group, opt)
OptionListAdd(os, o) == Append(os, o)

\* registerCommand(cmd) on context t: [ctx, err]
RegisterCommand_AliasOverwrites(cx, t, k) ==
    IF CommandListHas(cx[t].commands, CmdName(k)) THEN
        [ctx |-> cx, err |-> "ERR_ALREADY_EXISTS"]
    ELSE
        LET added == CommandListAdd(cx[t].commands, k)
            lk == [ n \in CommandNames |->
                      IF n = CmdName(k) \/ n \in CmdAliases(k) THEN k
                      ELSE cx[t].lookup.commands[n] ]
        IN  [ ctx |-> [cx EXCEPT ![t].commands = added, ![t].lookup.commands = lk],
              err |-> "none" ]

RegisterCommand(cx, t, k) ==
    IF CommandListHas(cx[t].commands, CmdName(k)) THEN
        [ctx |-> cx, err |-> "ERR_ALREADY_EXISTS"]
    ELSE
        LET added == CommandListAdd(cx[t].commands, k)
            lk == [ n \in CommandNames |->
                      IF n = CmdName(k) THEN k
                      ELSE IF n \in CmdAliases(k) /\ ~CommandListHas(added, n) THEN k
                      ELSE cx[t].lookup.commands[n] ]
        IN  [ ctx |-> [cx EXCEPT ![t].commands = added, ![t].lookup.commands = lk],
              err |-> "none" ]

\* command(cmd) and extension(ext) with an instance: the instance's parent is set,
\* then it is registered
ContextCommand(cx, t, k) == RegisterCommand([cx EXCEPT ![k].parent = t], t, k)

ContextExtension(cx, t, x) == RegisterCommand([cx EXCEPT ![x].parent = t], t, x)

\* option(opt) on context t: [ctx, err]
ContextOption(cx, t, o) ==
    LET long == [ n \in LongNames |->
                    IF (OptLong(o) # Null /\ n = OptLong(o)) \/ n \in OptAliasesLong(o)
                    THEN o ELSE cx[t].lookup.long[n] ]
        short == [ n \in ShortNames |->
                     IF OptShort(o) # Null /\ n = OptShort(o)
                     THEN o ELSE cx[t].lookup.short[n] ]
    IN  [ ctx |-> [cx EXCEPT ![t].options = OptionListAdd(@, o),
                             ![t].lookup.long = long, ![t].lookup.short = short],
          err |-> "none" ]

NoOp ==
    [ op |-> "none", target |-> "none", arg |-> "none", err |-> "none",
      before |-> ContextNew ]

\* a declaration call on context t; `before` is t as the call found it
Declare(name, t, arg, r) ==
    /\ nops < MaxOps
    /\ nops' = nops + 1
    /\ ctx' = r.ctx
    /\ op' = [op |-> name, target |-> t, arg |-> arg, err |-> r.err, before |-> ctx[t]]
    /\ UNCHANGED outsideCtx

CtxCommand(t, k) == Declare("command", t, k, ContextCommand(ctx, t, k))

CtxExtension(t, x) == Declare("extension", t, x, ContextExtension(ctx, t, x))

CtxOption(t, o) == Declare("option", t, o, ContextOption(ctx, t, o))

CtxInit ==
    /\ ctx = [c \in Contexts |-> ContextNew]
    /\ op = NoOp
    /\ nops = 0

\* ----------------------------------------------- extensions: load and run

\* the extension paths of the fixture file system, one per way the Extension
\* constructor can find a path
ExtensionPaths ==
    {"exe", "script", "kit", "object", "throws", "nonobject", "nomain", "missing"}

\* which.sync(extensionPath) finds an executable
Which(path) == path = "exe"

\* fs.existsSync(extensionPath)
ExistsSync(path) == path # "missing"

\* findPackage(extensionPath): whether a main file was found, and whether the
\* manifest declares cli-kit
PkgMain(path) == path # "nomain"

PkgClikit(path) == path \in {"kit", "object", "throws", "nonobject"}

\* require(pkg.main): a cli-kit CLI or Command ("clikit"), another object, a value
\* that is not an object, or an exception
Require(path) ==
    CASE path = "kit" -> "clikit"
      [] path = "object" -> "object"
      [] path = "throws" -> "error"
      [] OTHER -> "nonobject"

NoExtension ==
    [ name |-> "none", executable |-> Null, isCLIKitExtension |-> FALSE, pkg |-> FALSE,
      action |-> "none", versionOption |-> FALSE ]

Loaded(path, executable, isCLIKit, pkg, action) ==
    [ err |-> "none",
      ext |-> [ name |-> path, executable |-> executable, isCLIKitExtension |-> isCLIKit,
                pkg |-> pkg, action |-> action, versionOption |-> ~isCLIKit ] ]

LoadError(err) == [err |-> err, ext |-> NoExtension]

\* new Extension({extensionPath, name, parent}); ignoreInvalid and ignoreMissing are
\* what parent.get('ignoreInvalidExtensions') and this.get('ignoreMissingExtensions')
\* return
ExtensionNew(path, ignoreInvalid, ignoreMissing) ==
    IF Which(path) THEN
        Loaded(path, "path", FALSE, FALSE, "exec")
    ELSE IF ExistsSync(path) THEN
        IF ~PkgMain(path) THEN
            LoadError("ERR_INVALID_EXTENSION")
        ELSE IF PkgClikit(path) THEN
            CASE Require(path) = "clikit" -> Loaded(path, Null, TRUE, TRUE, "kit")
              [] Require(path) = "object" -> Loaded(path, "execPath", FALSE, TRUE, "exec")
              [] OTHER ->
                   IF Truthy(ignoreInvalid)
                   THEN Loaded(path, Null, TRUE, TRUE, "stub")
                   ELSE LoadError("ERR_INVALID_EXTENSION")
        ELSE
            Loaded(path, "execPath", FALSE, TRUE, "exec")
    ELSE IF Truthy(ignoreMissing) THEN
        Loaded(path, Null, FALSE, FALSE, "stub")
    ELSE
        LoadError("ERR_INVALID_EXTENSION")

\* the properties a root keeps from its params: the Context constructor copies every
\* one it is given, the CLI constructor passes none of these three to it
NoProps ==
    [ ignoreInvalidExtensions |-> Undefined, ignoreMissingExtensions |-> Undefined,
      terminal |-> NoTerminal ]

RootProps(kind, p) ==
    IF kind = "CLI" THEN NoProps
    ELSE [ ignoreInvalidExtensions |-> p.ignoreInvalidExtensions,
           ignoreMissingExtensions |-> p.ignoreMissingExtensions,
           terminal |-> p.terminal ]

\* extension(path) on the root: [err, commands]
ExtensionFromPath(cmds, path, props) ==
    LET r == ExtensionNew(path, props.ignoreInvalidExtensions,
                          props.ignoreMissingExtensions)
    IN  IF r.err # "none" THEN
            [err |-> r.err, commands |-> cmds]
        ELSE IF \E i \in DOMAIN cmds : cmds[i].name = r.ext.name THEN
            [err |-> "ERR_ALREADY_EXISTS", commands |-> cmds]
        ELSE
            [err |-> "none", commands |-> Append(cmds, r.ext)]

\* the extensions loop of the constructors, from element i on: the CLI constructor
\* catches each error into warnings, the Context constructor lets the first escape
RECURSIVE LoadExtensions(_, _, _, _, _, _)
LoadExtensions(kind, props, exts, i, cmds, warnings) ==
    IF i > Len(exts) THEN
        [err |-> "none", commands |-> cmds, warnings |-> warnings]
    ELSE
        LET r == ExtensionFromPath(cmds, exts[i], props) IN
        IF r.err = "none" THEN
            LoadExtensions(kind, props, exts, i + 1, r.commands, warnings)
        ELSE IF kind = "CLI" THEN
            LoadExtensions(kind, props, exts, i + 1, cmds, Append(warnings, r.err))
        ELSE
            [err |-> r.err, commands |-> cmds, warnings |-> warnings]

ExtensionLists ==
    {<<>>} \cup {<<path>> : path \in ExtensionPaths}
           \cup {<<bad, good>> : bad \in {"missing", "throws"}, good \in {"exe", "script"}}
           \cup {<<"exe", "exe">>}

\* the params a root is constructed with
RootInputs ==
    [ kind : {"CLI"}, extensions : ExtensionLists,
      ignoreInvalidExtensions : {Undefined, "true", "false"},
      ignoreMissingExtensions : {Undefined, "true"},
      terminal : {NoTerminal}, stdout : {"process", "custom"},
      stderr : {"process", "custom"} ]
    \cup
    [ kind : {"Context"}, extensions : ExtensionLists,
      ignoreInvalidExtensions : {Undefined, "true", "false"},
      ignoreMissingExtensions : {Undefined, "true"},
      terminal : Terminals \cup {NoTerminal}, stdout : {"process"},
      stderr : {"process"} ]

NoRootParams ==
    [ kind |-> "none", extensions |-> <<>>, ignoreInvalidExtensions |-> Undefined,
      ignoreMissingExtensions |-> Undefined, terminal |-> NoTerminal,
      stdout |-> "process", stderr |-> "process" ]

NoRoot ==
    [ state |-> "none", params |-> NoRootParams, props |-> NoProps, commands |-> <<>>,
      warnings |-> <<>>, err |-> "none" ]

NoCode == -1

NoRun ==
    [ state |-> "none", ext |-> NoExtension, err |-> "none", stdio |-> NoStdio,
      piped |-> {}, code |-> NoCode ]

\* new CLI(p) or new Context(p)
RootConstruct(p) ==
    /\ root.state = "none"
    /\ LET props == RootProps(p.kind, p)
           r == LoadExtensions(p.kind, props, p.extensions, 1, <<>>, <<>>)
       IN  root' = [ state |-> IF r.err = "none" THEN "constructed" ELSE "failed",
                     params |-> p, props |-> props, commands |-> r.commands,
                     warnings |-> r.warnings, err |-> r.err ]
    /\ UNCHANGED <<run, runs, outsideExt>>

\* root.extension(path) after construction; an error reaches the caller
RootExtension(path) ==
    /\ root.state = "constructed"
    /\ Len(root.commands) < MaxCommands
    /\ LET r == ExtensionFromPath(root.commands, path, root.props)
       IN  root' = [root EXCEPT !.commands = r.commands, !.err = r.err]
    /\ UNCHANGED <<run, runs, outsideExt>>

\* the action of the i-th extension of the root is called: Extension.exec, or the
\* stub that writes a diagnostic to this.get('terminal').stderr
InvokeAction(i) ==
    /\ root.state = "constructed"
    /\ i \in DOMAIN root.commands
    /\ run.state # "spawned"
    /\ runs < MaxRuns
    /\ runs' = runs + 1
    /\ LET ext == root.commands[i]
           terminal == root.props.terminal
       IN  /\ ext.action \in {"exec", "stub"}
           /\ IF ext.action = "exec" THEN
                  LET r == ExtensionExec(ext.executable, ext.isCLIKitExtension, terminal)
                  IN  run' = [ state |-> r.state, ext |-> ext, err |-> r.err,
                               stdio |-> r.stdio,
                               piped |-> {n \in {2, 3} : r.stdio[n] = "pipe"},
                               code |-> NoCode ]
              ELSE
                  run' = [ NoRun EXCEPT !.ext = ext,
                             !.state = IF terminal.defined THEN "returned" ELSE "threw",
                             !.err = IF terminal.defined THEN "none" ELSE "TypeError" ]
    /\ UNCHANGED <<root, outsideExt>>

ExitCodes == {0, 1}

\* the child emits 'close': the promise resolves with {code}
ChildClose(code) ==
    /\ run.state = "spawned"
    /\ run' = [run EXCEPT !.state = "resolved", !.code = code]
    /\ UNCHANGED <<root, runs, outsideExt>>

ExtInit ==
    /\ root = NoRoot
    /\ run = NoRun
    /\ runs = 0

\* --------------------------------------------- Context.get and Context.prop

\* the values a property can have on a context
PropValues == {Undefined, Null, "false", "a", "b"}

\* the default values handed to get and prop
PropDefaults == {Undefined, "d"}

\* a parent chain: element i is this[name] of a context, element i + 1 that of its
\* parent, the last element that of the parentless root
Chains == UNION {[1..n -> PropValues] : n \in 1..MaxDepth}

RECURSIVE Get(_, _, _)
RECURSIVE GetLoop(_, _, _)

\* the loop of get: for (p = this.parent; p; p = p.parent) value = p.get(name, value)
GetLoop(ch, p, value) ==
    IF p > Len(ch) THEN value ELSE GetLoop(ch, p + 1, Get(ch, p, value))

\* get(name, defaultValue) on context i of the chain
Get_NearestWins(ch, i, defaultValue) ==
    LET defined == {j \in i..Len(ch) : ch[j] # Undefined}
    IN  IF defined = {} THEN defaultValue
        ELSE ch[CHOOSE j \in defined : \A k \in defined : j <= k]

Get(ch, i, defaultValue) ==
    LET value == GetLoop(ch, i + 1, ch[i])
    IN  IF value # Undefined THEN value ELSE defaultValue

RECURSIVE Prop(_, _, _)
RECURSIVE PropLoop(_, _, _)

\* the loop of prop: it stops as soon as value is defined
PropLoop(ch, p, value) ==
    IF value = Undefined /\ p <= Len(ch)
    THEN PropLoop(ch, p + 1, Prop(ch, p, value))
    ELSE value

\* prop(name, defaultValue) on context i of the chain
Prop_TopmostWins(ch, i, defaultValue) ==
    LET defined == {j \in i..Len(ch) : ch[j] # Undefined}
    IN  IF defined = {} THEN defaultValue
        ELSE ch[CHOOSE j \in defined : \A k \in defined : j >= k]

Prop(ch, i, defaultValue) ==
    LET value == PropLoop(ch, i + 1, ch[i])
    IN  IF value # Undefined THEN value ELSE defaultValue

NoCall == [method |-> "none", receiver |-> 0, default |-> Undefined, result |-> Undefined]

CallGet(i, d) ==
    /\ i \in DOMAIN chain
    /\ call' = [method |-> "get", receiver |-> i, default |-> d, result |-> Get(chain, i, d)]
    /\ UNCHANGED <<chain, outsideGet>>

CallProp(i, d) ==
    /\ i \in DOMAIN chain
    /\ call' = [method |-> "prop", receiver |-> i, default |-> d, result |-> Prop(chain, i, d)]
    /\ UNCHANGED <<chain, outsideGet>>

\* no chain under observation
GetIdle ==
    /\ chain = <<Undefined>>
    /\ call = NoCall

\* ------------------------------- Context constructor: mixing in a context

\* property names, as sequences of fragments: each fragment is one of the words
\* of propIgnoreRegExp or a piece of text that holds none of them, so that
\* <<"sub", "commands">> is the name subcommands
PropNames ==
    { <<"args">>, <<"commands">>, <<"options">>, <<"lookup">>, <<"_events">>,
      <<"_links">>, <<"title">>, <<"stdout">>, <<"sub", "commands">>, <<"my", "args">>,
      <<"cli_", "options">>, <<"options", "2">>, <<"my", "_events">>,
      <<"_events", "2">> }

\* propIgnoreRegExp.test(prop) for /^_events|_links|args|commands|lookup|options$/:
\* the alternatives are ^_events, _links, args, commands, lookup and options$
PropIgnoreRegExpTest(prop) ==
    \/ prop[1] = "_events"
    \/ \E i \in DOMAIN prop : prop[i] \in {"_links", "args", "commands", "lookup"}
    \/ prop[Len(prop)] = "options"

\* the property copy of the constructor
CopiedProps(props, ignoreOut) ==
    { prop \in props :
        \/ ~PropIgnoreRegExpTest(prop)
        \/ (prop \in {<<"stdout">>, <<"stderr">>} /\ ignoreOut) }

OptionNames == {"version", "foo", "bar"}

\* some ancestor of the new context, reached from this.parent, has an option of
\* that name
FoundInParents(ancestors, name) == \E i \in DOMAIN ancestors : name \in ancestors[i]

\* the options of the source that are re-added with this.option(option, group)
MixOptions_NoVersionException(isCLI, options, ancestors) ==
    SelectSeq(options, LAMBDA name : ~(isCLI /\ FoundInParents(ancestors, name)))

MixOptions(isCLI, options, ancestors) ==
    SelectSeq(options,
              LAMBDA name : ~(isCLI /\ name # "version" /\ FoundInParents(ancestors, name)))

\* the sources: a CLI or a Command with some own properties, its options in list
\* order, and the options of each context on the chain from its parent to the root
Sources ==
    [ kind : {"CLI", "Command"},
      props : {ps \in SUBSET PropNames : Cardinality(ps) <= MaxProps},
      options : {<<>>, <<"version">>, <<"foo">>, <<"version", "foo">>, <<"foo", "bar">>},
      ancestors : UNION {[1..n -> SUBSET {"version", "foo"}] : n \in 0..MaxAncestors} ]

NotMade == [state |-> "none", props |-> {}, options |-> <<>>]

\* new Context(src)
ContextMix ==
    /\ made.state = "none"
    /\ made' = [ state |-> "made",
                 props |-> CopiedProps(src.props, TRUE),
                 options |-> MixOptions(src.kind = "CLI", src.options, src.ancestors) ]
    /\ UNCHANGED <<src, outsideMix>>

\* no context under construction
MixIdle ==
    /\ src = [kind |-> "Command", props |-> {}, options |-> <<>>, ancestors |-> <<>>]
    /\ made = NotMade

\* ------------------------------------------------- Context.generateHelp

\* an option entry of a help scope: its long and short name, one of them present
HelpEntries ==
    {e \in [long : {Null, "foo", "bar"}, short : {Null, "f", "g"}] :
        e.long # Null \/ e.short # Null}

\* the entries of one context, in the order its groups list them
EntryLists == UNION {[1..n -> HelpEntries] : n \in 0..MaxEntries}

\* the contexts from the receiver (first) to the root (last)
ScopeLists == UNION {[1..n -> EntryLists] : n \in 1..MaxScopes}

\* ctx.options.generateHelp(): the entries and their number
OptionListGenerateHelp(entries) == [count |-> Len(entries), entries |-> entries]

\* the loop over the entries of one scope, from entry i on: an entry whose long or
\* short name is in longs or shorts is spliced out and the scope's count decremented
RECURSIVE ElideEntries(_, _, _, _, _, _)
ElideEntries(entries, i, longs, shorts, kept, count) ==
    IF i > Len(entries) THEN
        [longs |-> longs, shorts |-> shorts, entries |-> kept, count |-> count]
    ELSE
        LET e == entries[i]
            nuke == \/ (e.long # Null /\ e.long \in longs)
                    \/ (e.short # Null /\ e.short \in shorts)
            longs2 == IF e.long # Null THEN longs \cup {e.long} ELSE longs
            shorts2 == IF e.short # Null THEN shorts \cup {e.short} ELSE shorts
        IN  ElideEntries(entries, i + 1, longs2, shorts2,
                         IF nuke THEN kept ELSE Append(kept, e),
                         IF nuke THEN count - 1 ELSE count)

\* the loop over the scopes: j runs from the last scope (the root) down to the first
RECURSIVE ElideScopes(_, _, _, _)
ElideScopes(out, j, longs, shorts) ==
    IF j = 0 THEN out
    ELSE LET r == ElideEntries(out[j].entries, 1, longs, shorts, <<>>, out[j].count)
         IN  ElideScopes([out EXCEPT ![j] = [count |-> r.count, entries |-> r.entries]],
                         j - 1, r.longs, r.shorts)

RECURSIVE SumCounts(_, _)
SumCounts(out, j) == IF j = 0 THEN 0 ELSE out[j].count + SumCounts(out, j - 1)

\* the options part of generateHelp: results.options = {count, scopes}
GenerateHelp_NoElision(sc) ==
    LET out == [j \in DOMAIN sc |-> OptionListGenerateHelp(sc[j])]
    IN  [state |-> "done", scopes |-> out, count |-> SumCounts(out, Len(out))]

GenerateHelp(sc) ==
    LET out == ElideScopes([j \in DOMAIN sc |-> OptionListGenerateHelp(sc[j])],
                           Len(sc), {}, {})
    IN  [state |-> "done", scopes |-> out, count |-> SumCounts(out, Len(out))]

NoHelp == [state |-> "none", scopes |-> <<>>, count |-> 0]

\* generateHelp() on the first context of the scopes
CallGenerateHelp ==
    /\ help.state = "none"
    /\ help' = GenerateHelp(scopes)
    /\ UNCHANGED <<scopes, outsideHelp>>

\* no help under computation
HelpIdle ==
    /\ scopes = <<<<>>>>
    /\ help = NoHelp

\* ----------------------------------------------------------- specification

ProcessVersions == {6, 12}

Init ==
    /\ process \in [version : ProcessVersions]
    /\ params \in ParamsSet
    /\ cli = CLINew(params)
    /\ stdout = StreamNew
    /\ stderr = StreamNew
    /\ closures = <<>>
    /\ pc = "idle"
    /\ cur = CurIdle
    /\ execs = 0
    /\ first = NoFirst
    /\ last = NoOutcome
    /\ CtxInit
    /\ ExtInit
    /\ GetIdle
    /\ MixIdle
    /\ HelpIdle

Next ==
    \/ \E input \in ExecInputs : ExecCall(input)
    \/ \E s \in {"stdout", "stderr"}, afterEnd \in {"dropped", "thrown", "uncaught"} :
          ActionWrite(s, afterEnd)
    \/ ActionReturn
    \/ ActionThrow

Spec == Init /\ [][Next]_vars

\* a constructed CLI on which exec is not called
ExecIdle ==
    /\ process = [version |-> 12]
    /\ params = [ help |-> FALSE, showHelpOnError |-> Undefined,
                  defaultCommand |-> Undefined, banner |-> Undefined,
                  hideNoBannerOption |-> FALSE, nodeVersion |-> 0 ]
    /\ cli = CLINew(params)
    /\ stdout = StreamNew
    /\ stderr = StreamNew
    /\ closures = <<>>
    /\ pc = "idle"
    /\ cur = CurIdle
    /\ execs = 0
    /\ first = NoFirst
    /\ last = NoOutcome

InitCtx == ExecIdle /\ CtxInit /\ ExtInit /\ GetIdle /\ MixIdle /\ HelpIdle

NextCtx ==
    \/ \E t \in Contexts, k \in Commands : CtxCommand(t, k)
    \/ \E t \in Contexts, x \in Extensions : CtxExtension(t, x)
    \/ \E t \in Contexts, o \in Options : CtxOption(t, o)

SpecCtx == InitCtx /\ [][NextCtx]_vars

InitExt == ExecIdle /\ CtxInit /\ ExtInit /\ GetIdle /\ MixIdle /\ HelpIdle

NextExt ==
    \/ \E p \in RootInputs : RootConstruct(p)
    \/ \E path \in ExtensionPaths : RootExtension(path)
    \/ \E i \in 1..MaxCommands : InvokeAction(i)
    \/ \E code \in ExitCodes : ChildClose(code)

SpecExt == InitExt /\ [][NextExt]_vars

InitGet ==
    /\ ExecIdle /\ CtxInit /\ ExtInit
    /\ chain \in Chains
    /\ call = NoCall
    /\ MixIdle
    /\ HelpIdle

NextGet ==
    \/ \E i \in 1..MaxDepth, d \in PropDefaults : CallGet(i, d)
    \/ \E i \in 1..MaxDepth, d \in PropDefaults : CallProp(i, d)

SpecGet == InitGet /\ [][NextGet]_vars

InitMix ==
    /\ ExecIdle /\ CtxInit /\ ExtInit /\ GetIdle
    /\ src \in Sources
    /\ made = NotMade
    /\ HelpIdle

NextMix == ContextMix

SpecMix == InitMix /\ [][NextMix]_vars

InitHelp ==
    /\ ExecIdle /\ CtxInit /\ ExtInit /\ GetIdle /\ MixIdle
    /\ scopes \in ScopeLists
    /\ help = NoHelp

NextHelp == CallGenerateHelp

SpecHelp == InitHelp /\ [][NextHelp]_vars

\* ------------------------------------------------------- claims: CLI.exec

\* an invocation has selected its command: it awaits the selected command's action,
\* or it returned normally
Selected(o) == o.cmd # "none"

DeclaredDefault ==
    IF params.defaultCommand # Undefined THEN params.defaultCommand
    ELSE IF params.help THEN "help" ELSE Undefined

\* the claim's priority: help, the explicit command, the registered default, none
PriorityCommand(terminal, argv) ==
    IF params.help /\ argv.help = "true"
       /\ ~(ClassOf(terminal) = "Extension" /\ ~IsCLIKitExtension(terminal))
    THEN "help"
    ELSE IF ClassOf(terminal) # "CLI" THEN terminal
    ELSE IF DeclaredDefault \in cli.commands THEN DeclaredDefault
    ELSE Root

ParsedContexts(terminal) == IF terminal = Root THEN <<Root>> ELSE <<terminal, Root>>

SelectionAsClaimed(o) ==
    /\ o.cmd = PriorityCommand(o.terminal, o.argv)
    /\ o.contexts = IF o.cmd = o.terminal THEN ParsedContexts(o.terminal)
                    ELSE <<o.cmd>> \o ParsedContexts(o.terminal)

\* C1: for every parse outcome exec selects the help command (help enabled, argv.help
\* truthy, terminal context not a non-cli-kit Extension), else the terminal context
\* when it is a Command, else the registered default command, else no command; a
\* selected help or default command is prepended to contexts; and exec returns the
\* selected command's action result when it has an action, else the parse result.
C1_CommandSelection ==
    /\ (pc = "action" /\ ~cur.inCatch) => SelectionAsClaimed(cur)
    /\ (last.kind = "returned" /\ ~last.viaHelp) =>
          /\ SelectionAsClaimed(last)
          /\ last.ret = IF HasAction(last.cmd)
                        THEN [kind |-> "action", by |-> last.cmd]
                        ELSE [kind |-> "results", by |-> "none"]

\* C1 witness: --help after a cli-kit extension selected the help command, which was
\* prepended to the contexts and whose action result exec returned.
C1_Witness ==
    /\ last.kind = "returned" /\ ~last.viaHelp
    /\ last.terminal = "kext" /\ last.cmd = "help"
    /\ last.contexts = <<"help", "kext", Root>>
    /\ last.ret = [kind |-> "action", by |-> "help"]

\* an error was raised in the invocation that ended as o
ErrorRaised(o) == o.kind = "thrown" \/ o.viaHelp

\* C2 (the claim's second case): on an error raised during exec, when help is disabled
\* or the caller passed showHelpOnError=false, the help action is not run and the
\* original error is rethrown to the caller of exec.
C2_RethrownWhenHelpOnErrorOff ==
    /\ (pc = "action" /\ cur.inCatch) =>
          (params.help /\ params.showHelpOnError # "false")
    /\ (pc = "idle" /\ ErrorRaised(last)
        /\ ~(params.help /\ params.showHelpOnError # "false")) =>
          (last.kind = "thrown" /\ ~last.viaHelp)

\* C3: every invocation of exec that returns control to its caller, normally, through
\* help-on-error or by throwing (a failed preflight and a non-array argument
\* included), has ended both output streams.
C3_StreamsEndedOnReturn ==
    (pc = "idle" /\ last.kind \in {"returned", "thrown"}) =>
        (last.flushed /\ stdout.ended /\ stderr.ended)

\* C4: when defaultCommand names no registered command and the parse yields no
\* explicit command, exec fails with DEFAULT_COMMAND_NOT_FOUND.
C4_DefaultCommandNotFound ==
    (pc = "idle" /\ Selected(last) /\ last.terminal = Root
     /\ params.defaultCommand # Undefined /\ params.defaultCommand \notin cli.commands) =>
        \/ (last.kind = "thrown" /\ last.err = "ERR_DEFAULT_COMMAND_NOT_FOUND")
        \/ (last.viaHelp /\ last.helpArgs.err = "ERR_DEFAULT_COMMAND_NOT_FOUND")

\* C5: a second exec on the same instance with the same tokens, after a first run that
\* returned normally, succeeds with an equivalent result (same selected command, _,
\* argv, contexts and unknown), unless the action itself throws.
C5_ReExecEquivalent ==
    (first.set /\ last.n = 2 /\ last.input = first.input /\ last.err # "ERR_ACTION") =>
        /\ last.kind = "returned" /\ ~last.viaHelp
        /\ last.cmd = first.cmd
        /\ last.underscore = first.underscore
        /\ last.argv = first.argv
        /\ last.contexts = first.contexts
        /\ last.unknown = first.unknown


\* ------------------------------------------------------ claims on Context

\* the names an option registers in a lookup
OptLookupLong(o) == (IF OptLong(o) = Null THEN {} ELSE {OptLong(o)}) \cup OptAliasesLong(o)

OptLookupShort(o) == IF OptShort(o) = Null THEN {} ELSE {OptShort(o)}

\* option o has a canonical or visible name that context record c already holds
NameRegistered(c, o) ==
    \/ \E n \in OptLookupLong(o) : c.lookup.long[n] # "none"
    \/ \E n \in OptLookupShort(o) : c.lookup.short[n] # "none"

SharesName(o1, o2) ==
    \/ OptLookupLong(o1) \cap OptLookupLong(o2) # {}
    \/ OptLookupShort(o1) \cap OptLookupShort(o2) # {}

\* C6: option() with an option whose canonical long, canonical short or visible
\* alias is already registered in the same Context's lookup fails with
\* ALREADY_EXISTS and leaves the option list and lookup.long/lookup.short as they
\* were; hence no two options declared directly on one Context share a canonical
\* long, canonical short or visible alias.
C6_DuplicateOptionRefused ==
    /\ (op.op = "option" /\ NameRegistered(op.before, op.arg)) =>
          /\ op.err = "ERR_ALREADY_EXISTS"
          /\ ctx[op.target].options = op.before.options
          /\ ctx[op.target].lookup.long = op.before.lookup.long
          /\ ctx[op.target].lookup.short = op.before.lookup.short
    /\ \A c \in Contexts : \A i, j \in DOMAIN ctx[c].options :
          i < j => ~SharesName(ctx[c].options[i], ctx[c].options[j])

IsRegistration == op.op \in {"command", "extension"}

\* C7: registerCommand, reached through command() and extension(), refuses a
\* command whose name is the name of a command already registered on that
\* Context: ALREADY_EXISTS, command list and lookup.commands as they were. An
\* alias of a newly registered command that equals the name of an already
\* registered command is dropped: lookup.commands[alias] keeps resolving to the
\* existing command.
C7_RegisterCommandRefusesDuplicates ==
    /\ (IsRegistration /\ CommandListHas(op.before.commands, CmdName(op.arg))) =>
          /\ op.err = "ERR_ALREADY_EXISTS"
          /\ ctx[op.target].commands = op.before.commands
          /\ ctx[op.target].lookup.commands = op.before.lookup.commands
    /\ (IsRegistration /\ ~CommandListHas(op.before.commands, CmdName(op.arg))) =>
          /\ op.err = "none"
          /\ ctx[op.target].commands = Append(op.before.commands, op.arg)
          /\ \A a \in CmdAliases(op.arg) :
                CommandListHas(op.before.commands, a) =>
                   \E i \in DOMAIN op.before.commands :
                      /\ CmdName(op.before.commands[i]) = a
                      /\ ctx[op.target].lookup.commands[a] = op.before.commands[i]

\* a registration was refused on a context that earlier dropped a colliding alias
C7_Witness ==
    /\ IsRegistration
    /\ op.err = "ERR_ALREADY_EXISTS"
    /\ \E i, j \in DOMAIN ctx[op.target].commands :
          /\ i < j
          /\ CmdName(ctx[op.target].commands[i]) \in CmdAliases(ctx[op.target].commands[j])
          /\ ctx[op.target].lookup.commands[CmdName(ctx[op.target].commands[i])]
                = ctx[op.target].commands[i]


\* --------------------------------------------------- claims on extensions

\* an element of params.extensions fails to load
LoadFails ==
    \E i \in DOMAIN root.params.extensions :
        ExtensionNew(root.params.extensions[i], root.props.ignoreInvalidExtensions,
                     root.props.ignoreMissingExtensions).err # "none"

\* C8: when a CLI is constructed with params.extensions and an extension fails to
\* load, the failure is caught and appended to the root's warnings only if
\* ignoreInvalidExtensions is set; when it is false or unset the load error
\* propagates and the construction of the CLI fails.
C8_LoadErrorPropagatesUnlessIgnored ==
    (root.state # "none" /\ root.params.kind = "CLI" /\ LoadFails) =>
        IF Truthy(root.params.ignoreInvalidExtensions)
        THEN root.state = "constructed" /\ Len(root.warnings) > 0
        ELSE root.state = "failed" /\ root.err # "none"

\* C9: under a CLI root, invoking the action of an extension that has an
\* executable spawns it and the promise resolves with the child's exit code once
\* the child closes; the promise is never rejected when an executable is set.
C9_ExecSpawnsAndResolves ==
    (root.params.kind = "CLI" /\ run.state # "none" /\ run.ext.executable # Null) =>
        /\ run.state \in {"spawned", "resolved"}
        /\ run.err = "none"
        /\ run.state = "resolved" => run.code \in ExitCodes

Running == run.state \in {"spawned", "resolved"} /\ run.ext.executable # Null

ClaimedSlot(stream) == IF stream = "process" THEN "inherit" ELSE "pipe"

\* C10: when an extension with an executable runs, each stdio slot of the child is
\* 'inherit' if the corresponding terminal stream of the root is the process's real
\* stream and 'pipe', with the child's output piped into the root's stream, if the
\* caller overrode that stream.
C10_StdioInheritOrPipe ==
    Running =>
        /\ run.stdio = << ClaimedSlot(root.props.terminal.stdin),
                          ClaimedSlot(root.props.terminal.stdout),
                          ClaimedSlot(root.props.terminal.stderr) >>
        /\ run.piped = {n \in {2, 3} : run.stdio[n] = "pipe"}


\* ------------------------------------------------ claims on get and prop

\* the contexts from the receiver of the latest call to the root that define the
\* property
DefinedOnChain == {j \in call.receiver..Len(chain) : chain[j] # Undefined}

Topmost == CHOOSE j \in DefinedOnChain : \A k \in DefinedOnChain : j >= k

Nearest == CHOOSE j \in DefinedOnChain : \A k \in DefinedOnChain : j <= k

\* C11: get(name, default) returns the value of the context closest to the root
\* among those of the chain whose value is not undefined, and default exactly when
\* no context of the chain defines the property.
C11_GetRootWins ==
    call.method = "get" =>
        /\ DefinedOnChain # {} => call.result = chain[Topmost]
        /\ DefinedOnChain = {} <=> call.result = call.default

\* get on a chain where the receiver and an ancestor define different values
C11_Witness ==
    /\ call.method = "get"
    /\ call.receiver < Len(chain)
    /\ chain[call.receiver] # Undefined
    /\ Topmost # Nearest
    /\ chain[Topmost] # chain[Nearest]
    /\ call.result = chain[Topmost]

\* C12: prop(name, default) returns the value of the context nearest to the
\* receiver, the receiver first, whose value is not undefined, and default exactly
\* when no context of the chain defines the property.
C12_PropLocalWins ==
    call.method = "prop" =>
        /\ DefinedOnChain # {} => call.result = chain[Nearest]
        /\ DefinedOnChain = {} <=> call.result = call.default

\* prop on a chain where the receiver does not define the property and two
\* ancestors define different values
C12_Witness ==
    /\ call.method = "prop"
    /\ chain[call.receiver] = Undefined
    /\ DefinedOnChain # {}
    /\ Topmost # Nearest
    /\ chain[Topmost] # chain[Nearest]
    /\ call.result = chain[Nearest]


\* ------------------------------------------------------ claims on the banner

\* the first exec registered a showBanner closure that can show a banner
BannerArmed ==
    /\ pc = "action"
    /\ cur.n = 1
    /\ Len(closures) = 1
    /\ Truthy(BannerText(cli, cur.cmd))
    /\ Truthy(closures[1].argvBanner)

\* C13: within one exec the banner is written at most once in total across stdout
\* and stderr: the stream that is written first emits it, and a later first write
\* to the other stream does not emit it again.
C13_BannerAtMostOnce ==
    /\ cur.banners <= 1
    /\ last.banners <= 1
    /\ (BannerArmed /\ stdout.started /\ ~stderr.started) =>
           (stdout.banners = 1 /\ stderr.banners = 0 /\ cur.banners = 1)
    /\ (BannerArmed /\ stderr.started /\ ~stdout.started) =>
           (stderr.banners = 1 /\ stdout.banners = 0 /\ cur.banners = 1)
    /\ (BannerArmed /\ stdout.started /\ stderr.started) =>
           (stdout.banners + stderr.banners = 1 /\ cur.banners = 1)

\* both streams were written during an exec that showed the banner on stderr
C13_Witness ==
    /\ BannerArmed
    /\ stdout.started
    /\ stderr.started
    /\ stderr.banners = 1
    /\ cur.banners = 1


\* ------------------------------------------------------ claims on mixing

ReservedNames ==
    {<<"args">>, <<"commands">>, <<"options">>, <<"lookup">>, <<"_events">>, <<"_links">>}

\* C14: constructing a Context from an existing one copies every own enumerable
\* property of the source whose name is not exactly one of args, commands, options,
\* lookup, _events, _links, and none of those; a property whose name only contains
\* or ends with a reserved word (subcommands, myargs, cli_options) is copied.
C14_CopiesAllButReserved ==
    made.state = "made" => made.props = src.props \ ReservedNames

YieldsCompatibleContext(path) ==
    ~Which(path) /\ ExistsSync(path) /\ PkgMain(path) /\ PkgClikit(path)
    /\ Require(path) = "clikit"

\* C16: after a successful Extension construction isCLIKitExtension is true if and
\* only if the loaded module yielded a cli-kit-compatible context that was merged
\* into the Extension; executable-variant extensions and invalid stubs have
\* isCLIKitExtension false.
C16_IsCLIKitExtensionIffCompatible ==
    \A i \in DOMAIN root.commands :
        /\ root.commands[i].isCLIKitExtension <=>
              YieldsCompatibleContext(root.commands[i].name)
        /\ root.commands[i].action \in {"exec", "stub"} =>
              ~root.commands[i].isCLIKitExtension

\* the path declares cli-kit and its entry point throws or yields something that
\* is not a compatible context
LoadsIncompatible(path) ==
    ~Which(path) /\ ExistsSync(path) /\ PkgMain(path) /\ PkgClikit(path)
    /\ Require(path) # "clikit"

\* C17: for a path whose manifest declares cli-kit, when ignoreInvalidExtensions is
\* set and loading the entry point throws or yields a non-object or an object
\* without a compatible clikit set, the Extension is an invalid stub: its action
\* only writes a diagnostic to stderr and never spawns a process.
C17_InvalidStub ==
    Truthy(root.props.ignoreInvalidExtensions) =>
        /\ \A i \in DOMAIN root.commands :
              LoadsIncompatible(root.commands[i].name) =>
                 (root.commands[i].action = "stub" /\ root.commands[i].executable = Null)
        /\ LoadsIncompatible(run.ext.name) => run.state \notin {"spawned", "resolved"}


\* ------------------------------------------------ claims on the context tree

\* the contexts that list command k, and those that list option o
ListedUnder(k) == {c \in Contexts : \E i \in DOMAIN ctx[c].commands : ctx[c].commands[i] = k}

DeclaredOn(o) == {c \in Contexts : \E i \in DOMAIN ctx[c].options : ctx[c].options[i] = o}

\* the contexts whose lookup resolves a name to option o
LookedUpIn(o) ==
    {c \in Contexts : \/ \E n \in LongNames : ctx[c].lookup.long[n] = o
                      \/ \E n \in ShortNames : ctx[c].lookup.short[n] = o}

\* following parent links from c reaches a context without parent in at most n steps
RECURSIVE ReachesRoot(_, _)
ReachesRoot(c, n) ==
    IF ctx[c].parent = "none" THEN TRUE
    ELSE IF n = 0 THEN FALSE
    ELSE ReachesRoot(ctx[c].parent, n - 1)

\* C18: after any sequence of command() and extension() calls, adopting calls
\* included, the contexts form a tree: every command listed in a Context's command
\* list has that Context as its parent, no command instance is listed under two
\* Contexts, and the parent links from any context reach a parentless root (no
\* cycle).
C18_ContextsFormTree ==
    /\ \A k \in Commands : \A c \in ListedUnder(k) : ctx[k].parent = c
    /\ \A k \in Commands : Cardinality(ListedUnder(k)) <= 1
    /\ \A c \in Contexts : ReachesRoot(c, Cardinality(Contexts))

\* C19: after any sequence of option() calls every Option instance belongs to
\* exactly one Context: it is in the option list of at most one Context, and its
\* lookup entries are registered in that Context only.
C19_OptionInOneContext ==
    \A o \in Options :
        /\ Cardinality(DeclaredOn(o)) <= 1
        /\ LookedUpIn(o) \subseteq DeclaredOn(o)


\* ------------------------------------------------ claims on generateHelp

\* entry i2 of scope j2 is visited before entry i of scope j: outer scopes first,
\* then list order
VisitedBefore(j2, i2, j, i) == j2 > j \/ (j2 = j /\ i2 < i)

SharesHelpName(e1, e2) ==
    \/ (e1.long # Null /\ e1.long = e2.long)
    \/ (e1.short # Null /\ e1.short = e2.short)

\* the long or the short name of entry i of scope j occurs in an entry visited
\* before it
SeenBefore(j, i) ==
    \E j2 \in DOMAIN scopes : \E i2 \in DOMAIN scopes[j2] :
        VisitedBefore(j2, i2, j, i) /\ SharesHelpName(scopes[j2][i2], scopes[j][i])

\* the entries of scope j from entry i on that were not seen before
RECURSIVE Remaining(_, _)
Remaining(j, i) ==
    IF i > Len(scopes[j]) THEN <<>>
    ELSE (IF SeenBefore(j, i) THEN <<>> ELSE <<scopes[j][i]>>) \o Remaining(j, i + 1)

RECURSIVE TotalEntries(_, _)
TotalEntries(out, j) ==
    IF j = 0 THEN 0 ELSE Len(out[j].entries) + TotalEntries(out, j - 1)

\* C20: generateHelp lets outer scopes win: scopes are visited from the root
\* towards the receiver, an entry is removed when its long or its short name was
\* seen in an earlier-visited entry, the scope's count drops by one per removal, no
\* long and no short name occurs in two remaining entries, and the total count is
\* the number of remaining entries.
C20_OuterScopesWin ==
    help.state = "done" =>
        /\ \A j \in DOMAIN scopes :
              /\ help.scopes[j].entries = Remaining(j, 1)
              /\ help.scopes[j].count = Len(scopes[j])
                                         - Cardinality({i \in DOMAIN scopes[j] : SeenBefore(j, i)})
        /\ \A j1, j2 \in DOMAIN scopes :
              \A i1 \in DOMAIN help.scopes[j1].entries, i2 \in DOMAIN help.scopes[j2].entries :
                 (j1 # j2 \/ i1 # i2) =>
                    ~SharesHelpName(help.scopes[j1].entries[i1], help.scopes[j2].entries[i2])
        /\ help.count = TotalEntries(help.scopes, Len(help.scopes))

\* the receiver declares --foo like the root does, and another option: the root
\* keeps its entry, the receiver keeps only the other one
C20_Witness ==
    /\ help.state = "done"
    /\ Len(scopes) = 2
    /\ Len(scopes[1]) = 2
    /\ Len(scopes[2]) = 1
    /\ scopes[1][1].long = "foo"
    /\ scopes[2][1].long = "foo"
    /\ help.scopes[2].entries = scopes[2]
    /\ help.scopes[1].entries = <<scopes[1][2]>>
    /\ help.count = 2


\* the tokens the exec in progress parses
InputTokens == IF cur.input.kind = "array" THEN cur.input.v ELSE ProcessArgv

\* C21: when the CLI was constructed with a banner and the tokens hold no
\* --no-banner, the first write to an output stream during the exec of a cli-kit
\* command emits the banner, whether or not hideNoBannerOption is set.
C21_BannerShownUnlessNoBanner ==
    ( /\ pc = "action"
      /\ cur.n = 1
      /\ ~cur.inCatch
      /\ Truthy(cli.banner)
      /\ BannerWired(cli, cur.cmd)
      /\ \A i \in DOMAIN InputTokens : InputTokens[i] # "--no-banner"
      /\ (stdout.started \/ stderr.started) )
    => cur.banners = 1


\* C22: a successful registration never changes which command a key already
\* present in lookup.commands resolves to: neither the new command's name nor
\* one of its aliases remaps a key that was mapped before the call.
C22_LookupKeysNeverRemapped ==
    (IsRegistration /\ op.err = "none")
    => \A n \in CommandNames :
           op.before.lookup.commands[n] # "none"
           => ctx[op.target].lookup.commands[n] = op.before.lookup.commands[n]

====
